---- MODULE Spec2Model ----
(***************************************************************************)
(* chlorophyll: a Tk Text widget (the Buffer) whose widget command is      *)
(* replaced by CodeView._cmd_proxy; successful insert/delete/replace run a *)
(* pygments highlight pass over the edited lines, and a colour scheme is   *)
(* flattened into a tag -> colour table by schemeparser._parse_scheme.     *)
(*                                                                         *)
(* The buffer is a sequence of one-character strings that always ends in   *)
(* the widget's final newline; tags[i] is the set of tag names on the i-th *)
(* character.  A position is an offset 0..Len(buf); Len(buf) is "end".     *)
(* A tag name is the tuple of its dotted parts: "Token.Name" is            *)
(* <<"Token", "Name">>, "sel" is <<"sel">>.                                *)
(***************************************************************************)
EXTENDS Integers, Sequences, FiniteSets, TLC

\* buf, tags, mark: the Buffer's text, tags and insert mark
\* call, log, ret: the call being handled, the steps it took, its outcome
\* run: the one-line text inserted at "1.0" several times in a row
\* calls: how many calls have been made
\* color_scheme, tag_styles: the scheme last set and the table it resolved to
\* options, foreground: the Buffer's editor options and tag colours
\* _lexer: the lexer the passes tokenize with
\* undo: the Buffer's undo option, its undo and redo stacks, its last edit
\* view: the fractions of the text the Buffer shows, across and down
\* _hs, _vs, _line_numbers: the two scrollbars and the gutter
\* bound, saw: the command the caller's handler of <<ContentChanged>> sends,
\*   and the Buffer as the handler found it when it last ran
VARIABLES buf, tags, mark, call, log, ret, run, calls, color_scheme, tag_styles,
          options, foreground, _lexer, undo, view, _hs, _vs, _line_numbers,
          bound, saw

vars == <<buf, tags, mark, call, log, ret, run, calls, color_scheme, tag_styles,
          options, foreground, _lexer, undo, view, _hs, _vs, _line_numbers,
          bound, saw>>

\* what configure() sets
config_vars == <<color_scheme, tag_styles, options, foreground, _lexer>>

\* what the handlers of <<ContentChanged>> set
handler_vars == <<_hs, _vs, _line_numbers, bound, saw>>

(* ------------------------------ bounds --------------------------------- *)

\* most characters the buffer holds besides its final newline
MaxLen == 6

\* largest line number a caller writes in a "line.column" position
MaxLine == 2

\* most calls (widget commands and direct highlight calls) of one run
MaxCalls == 3

\* most entries (general keys plus table keys) of a colour scheme
MaxEntries == 2

\* most colour schemes set on a widget whose schemes are of every kind
MaxSchemes == 1

\* most colour schemes set one after another, of few entries
MaxReconfigures == 2

(* ------------------------------ text ----------------------------------- *)

NL == "\n"
SP == " "

Letters == {"a"}
Digits == {"1"}

\* str.count("\n")
RECURSIVE CountNl(_)
CountNl(s) ==
    IF s = <<>> THEN 0
    ELSE (IF Head(s) = NL THEN 1 ELSE 0) + CountNl(Tail(s))

\* str.lstrip(): drops every leading whitespace character, newlines and spaces alike
RECURSIVE LStrip(_)
LStrip(s) ==
    IF s = <<>> THEN s
    ELSE IF Head(s) \in {NL, SP} THEN LStrip(Tail(s))
    ELSE s

\* text.strip("\n") on the left
RECURSIVE LStripNl(_)
LStripNl(s) ==
    IF s = <<>> THEN s
    ELSE IF Head(s) = NL THEN LStripNl(Tail(s))
    ELSE s

\* text.strip("\n") on the right
RECURSIVE RStripNl(_)
RStripNl(s) ==
    IF s = <<>> THEN s
    ELSE IF s[Len(s)] = NL THEN RStripNl(SubSeq(s, 1, Len(s) - 1))
    ELSE s

Min(a, b) == IF a < b THEN a ELSE b
Max(a, b) == IF a > b THEN a ELSE b

(* --------------------------- the tokenizer ----------------------------- *)

TokText == <<"Token", "Text">>
TokWhitespace == <<"Token", "Text", "Whitespace">>
TokName == <<"Token", "Name">>
TokNumber == <<"Token", "Literal", "Number">>

\* the lexers a widget is given: the one of the test, and the default
\* pygments.lexers.TextLexer, to which all text is one Token.Text
PythonLexer == "PythonLexer"
TextLexer == "TextLexer"

\* the token kind a character starts
KindOf(lexer, c) ==
    IF lexer = TextLexer THEN TokText
    ELSE IF c \in Letters THEN TokName
    ELSE IF c \in Digits THEN TokNumber
    ELSE IF c = NL THEN TokWhitespace
    ELSE TokText

\* length of the token that starts s: a run of one kind, a newline alone
RECURSIVE RunLen(_, _)
RunLen(lexer, s) ==
    IF Len(s) <= 1 \/ lexer = TextLexer THEN Len(s)
    ELSE IF Head(s) = NL THEN 1
    ELSE IF KindOf(lexer, s[2]) = KindOf(lexer, s[1]) THEN 1 + RunLen(lexer, Tail(s))
    ELSE 1

\* the lexer proper: (kind, length) pairs that cover s without a gap
RECURSIVE GetTokensUnprocessed(_, _)
GetTokensUnprocessed(lexer, s) ==
    IF s = <<>> THEN <<>>
    ELSE LET token(n) == <<[kind |-> KindOf(lexer, Head(s)), len |-> n]>>
                             \o GetTokensUnprocessed(lexer, SubSeq(s, n + 1, Len(s)))
         IN  token(RunLen(lexer, s))

\* pygments.lex(text, lexer): the lexer's default preprocessing (stripnl,
\* ensurenl) strips leading and trailing newlines and appends one newline
Lex(text, lexer) ==
    LET ensured(stripped) == IF stripped # <<>> /\ stripped[Len(stripped)] = NL
                             THEN stripped ELSE Append(stripped, NL)
    IN  GetTokensUnprocessed(lexer, ensured(RStripNl(LStripNl(text))))

\* tag.startswith("Token")
IsTokenTag(tag) == tag[1] = "Token"

Untagged == {TokWhitespace, TokText}

(* ----------------------- the Buffer: positions ------------------------- *)

\* number of lines of b (every line ends in a newline)
NumLines(b) == CountNl(b)

\* the first newline after offset p, as the offset just past it
NextNl(b, p) ==
    CHOOSE i \in (p + 1)..Len(b) :
        b[i] = NL /\ \A j \in (p + 1)..(i - 1) : b[j] # NL

\* offset of the first character of line n (1 <= n <= NumLines(b) + 1)
RECURSIVE LineStart(_, _)
LineStart(b, n) ==
    IF n <= 1 THEN 0
    ELSE NextNl(b, LineStart(b, n - 1))

\* offset of the newline that ends line n
LineEnd(b, n) == NextNl(b, LineStart(b, n)) - 1

\* "line.col" -> offset: a line below 1 is 1.0, a line past the last is
\* "end", a column past the line's end is the line's newline
PosOfLC(b, line, col) ==
    IF line < 1 THEN 0
    ELSE IF line > NumLines(b) THEN Len(b)
    ELSE Min(LineStart(b, line) + col, LineEnd(b, line))

\* "line.end" -> offset
PosOfLineEnd(b, line) ==
    IF line < 1 THEN 0
    ELSE IF line > NumLines(b) THEN Len(b)
    ELSE LineEnd(b, line)

\* offset -> the line of the "line.col" string the widget prints
LineOf(b, p) == 1 + CountNl(SubSeq(b, 1, p))

\* offset -> the column of the "line.col" string the widget prints
ColOf(b, p) == p - LineStart(b, LineOf(b, p))

\* the "line.col" string the widget's index command returns, as <<line, col>>
IndexStr(b, p) == <<LineOf(b, p), ColOf(b, p)>>

\* reading a "line.col" string back as a position
PosOfIndexStr(b, ix) == PosOfLC(b, ix[1], ix[2])

\* "<index> + n lines": same column n lines down, "end" past the last line
ForwLines(b, p, n) == PosOfLC(b, LineOf(b, p) + n, ColOf(b, p))

\* "<index> + n chars" / "+ n indices": stops at "end"
ForwChars(b, p, n) == Min(p + n, Len(b))

(* ------------------- the Buffer: position expressions ------------------ *)

\* what a caller can write as a position
LC(l, c) == [k |-> "lc", line |-> l, col |-> c]
InsertMark == [k |-> "insert", line |-> 0, col |-> 0]
End == [k |-> "end", line |-> 0, col |-> 0]
SelFirst == [k |-> "sel.first", line |-> 0, col |-> 0]
SelLast == [k |-> "sel.last", line |-> 0, col |-> 0]
BadIndex == [k |-> "bad", line |-> 0, col |-> 0]

SelTag == <<"sel">>

\* Tcl error messages, as the fragments the interceptor searches for
ErrNoSel == <<"text doesn't contain any characters ", "tagged with \"sel\"">>
ErrBadIndex == <<"bad text index">>
ErrNothingToUndo == <<"nothing to", " undo">>
ErrNothingToRedo == <<"nothing to", " redo">>
ErrBefore == <<"index before index in the text">>
NoError == <<>>

Selected(t) == {i \in 1..Len(t) : SelTag \in t[i]}

\* the widget's own "index" command: [err, pos]
Index(b, t, m, e) ==
    CASE e.k = "lc" -> [err |-> NoError, pos |-> PosOfLC(b, e.line, e.col)]
      [] e.k = "insert" -> [err |-> NoError, pos |-> m]
      [] e.k = "end" -> [err |-> NoError, pos |-> Len(b)]
      [] e.k = "sel.first" ->
            IF Selected(t) = {} THEN [err |-> ErrNoSel, pos |-> 0]
            ELSE [err |-> NoError,
                  pos |-> (CHOOSE i \in Selected(t) : \A j \in Selected(t) : i <= j) - 1]
      [] e.k = "sel.last" ->
            IF Selected(t) = {} THEN [err |-> ErrNoSel, pos |-> 0]
            ELSE [err |-> NoError,
                  pos |-> CHOOSE i \in Selected(t) : \A j \in Selected(t) : i >= j]
      [] OTHER -> [err |-> ErrBadIndex, pos |-> 0]

(* --------------------- the Buffer: insert and delete ------------------- *)

\* the widget's insert at offset p: text put at "end" goes before the final
\* newline; the new characters get the tags present on both neighbours;
\* the insert mark (right gravity) moves with text put at or before it
TkInsert(b, t, m, p, text) ==
    LET q == Min(p, Len(b) - 1)
        inherit == IF q > 0 THEN t[q] \cap t[q + 1] ELSE {}
    IN  [buf |-> SubSeq(b, 1, q) \o text \o SubSeq(b, q + 1, Len(b)),
         tags |-> SubSeq(t, 1, q) \o [i \in 1..Len(text) |-> inherit]
                      \o SubSeq(t, q + 1, Len(t)),
         mark |-> IF m >= q THEN m + Len(text) ELSE m]

\* the widget's delete of [p1, p2): nothing when the range is empty; a range
\* that reaches "end" stops before the final newline, takes the newline
\* before p1 instead when p1 starts a line, and clears the final newline's tags
TkDelete(b, t, m, p1, p2) ==
    IF p1 >= p2 THEN [buf |-> b, tags |-> t, mark |-> m]
    ELSE LET atEnd == p2 = Len(b)
             q2 == IF atEnd THEN p2 - 1 ELSE p2
             q1 == IF atEnd /\ p1 > 0 /\ b[p1] = NL THEN p1 - 1 ELSE p1
             t0 == IF atEnd THEN [t EXCEPT ![Len(t)] = {}] ELSE t
         IN  IF q1 >= q2 THEN [buf |-> b, tags |-> t0, mark |-> m]
             ELSE [buf |-> SubSeq(b, 1, q1) \o SubSeq(b, q2 + 1, Len(b)),
                   tags |-> SubSeq(t0, 1, q1) \o SubSeq(t0, q2 + 1, Len(t0)),
                   mark |-> IF m >= q2 THEN m - (q2 - q1)
                            ELSE IF m > q1 THEN q1 ELSE m]

\* the widget's replace: delete [p1, p2), then insert at the old p1
TkReplace(b, t, m, p1, p2, text) ==
    LET insert(d, ix) ==
            TkInsert(d.buf, d.tags, d.mark, PosOfIndexStr(d.buf, ix), text)
    IN  insert(TkDelete(b, t, m, p1, p2), IndexStr(b, p1))

(* ------------------------- the Buffer: tags ---------------------------- *)

\* tag_names(index=None): every tag name in use
TagNames(t) == UNION {t[i] : i \in 1..Len(t)}

\* as TagRemove, over the whole buffer whatever p1 and p2 are
TagRemove_Everywhere(t, names, p1, p2) ==
    [i \in 1..Len(t) |-> t[i] \ names]

\* tag_remove(tag, p1, p2) for every tag of names
TagRemove(t, names, p1, p2) ==
    [i \in 1..Len(t) |-> IF p1 < i /\ i <= p2 THEN t[i] \ names ELSE t[i]]

\* tag_add(tag, p1, p2)
TagAdd(t, tag, p1, p2) ==
    [i \in 1..Len(t) |-> IF p1 < i /\ i <= p2 THEN t[i] \cup {tag} ELSE t[i]]

\* get(p1, p2)
Get(b, p1, p2) == SubSeq(b, p1 + 1, Min(p2, Len(b)))

(* ------------------------- highlight passes ---------------------------- *)

\* as HighlightNames, with tag_names("1.0"): only the tags on the first character
HighlightNames_AtStart(t) == {tag \in t[1] : IsTokenTag(tag)}

\* the tags highlight_line and highlight_area/highlight_all take off a region
HighlightNames(t) == {tag \in TagNames(t) : IsTokenTag(tag)}

\* as LineTokenLoop, without "start_col = end_col": every token starts at
\* the column the first one started at
RECURSIVE LineTokenLoop_NoAdvance(_, _, _, _, _)
LineTokenLoop_NoAdvance(b, t, line_num, toks, start_col) ==
    IF toks = <<>> THEN t
    ELSE LET tok == Head(toks)
             end_col == start_col + tok.len
             t1 == IF tok.kind \notin Untagged
                   THEN TagAdd(t, tok.kind, PosOfLC(b, line_num, start_col),
                               PosOfLC(b, line_num, end_col))
                   ELSE t
         IN  LineTokenLoop_NoAdvance(b, t1, line_num, Tail(toks), start_col)

\* the token loop of highlight_line: columns of line_num, from start_col
RECURSIVE LineTokenLoop(_, _, _, _, _)
LineTokenLoop(b, t, line_num, toks, start_col) ==
    IF toks = <<>> THEN t
    ELSE LET tok == Head(toks)
             end_col == start_col + tok.len
             t1 == IF tok.kind \notin Untagged
                   THEN TagAdd(t, tok.kind, PosOfLC(b, line_num, start_col),
                               PosOfLC(b, line_num, end_col))
                   ELSE t
         IN  LineTokenLoop(b, t1, line_num, Tail(toks), end_col)

\* highlight_line(index), index resolved to offset p
highlight_line(b, t, lexer, p) ==
    LET line(line_num, from, to) ==
            LineTokenLoop(b, TagRemove(t, HighlightNames(t), from, to),
                          line_num, Lex(Get(b, from, to), lexer), 0)
        at(line_num) ==
            line(line_num, PosOfLC(b, line_num, 0), PosOfLineEnd(b, line_num))
    IN  at(IndexStr(b, p)[1])

\* the token loop of highlight_all and highlight_area: the cursor is an
\* index string, advanced by each token's length
RECURSIVE TokenLoop(_, _, _, _)
TokenLoop(b, t, toks, start_index) ==
    IF toks = <<>> THEN t
    ELSE LET next(tok, from, end_index) ==
                 TokenLoop(b,
                           IF tok.kind \notin Untagged
                           THEN TagAdd(t, tok.kind, from, PosOfIndexStr(b, end_index))
                           ELSE t,
                           Tail(toks), end_index)
             step(tok, from) ==
                 next(tok, from, IndexStr(b, ForwChars(b, from, tok.len)))
         IN  step(Head(toks), PosOfIndexStr(b, start_index))

\* text.count("\n") - text.lstrip().count("\n")
LineOffset(text) == CountNl(text) - CountNl(LStrip(text))

\* highlight_area(start_line, end_line)
highlight_area(b, t, lexer, start_line, end_line) ==
    LET tokens(from, t1, text) ==
            TokenLoop(b, t1, Lex(text, lexer),
                      IndexStr(b, ForwLines(b, from, LineOffset(text))))
        area(from, to) ==
            tokens(from, TagRemove(t, HighlightNames(t), from, to), Get(b, from, to))
    IN  area(PosOfLC(b, start_line, 0), PosOfLineEnd(b, end_line))

\* as highlight_all, with tag_remove(tag, "1.0", "1.end"): only the first
\* line is cleared
highlight_all_FirstLine(b, t, lexer) ==
    LET tokens(t1, lines) ==
            TokenLoop(b, t1, Lex(lines, lexer),
                      IndexStr(b, ForwLines(b, 0, LineOffset(lines))))
    IN  tokens(TagRemove(t, HighlightNames(t), 0, PosOfLineEnd(b, 1)), Get(b, 0, Len(b)))

\* highlight_all()
highlight_all(b, t, lexer) ==
    LET tokens(t1, lines) ==
            TokenLoop(b, t1, Lex(lines, lexer),
                      IndexStr(b, ForwLines(b, 0, LineOffset(lines))))
    IN  tokens(TagRemove(t, HighlightNames(t), 0, Len(b)), Get(b, 0, Len(b)))

(* ------------------------- the Buffer: undo ---------------------------- *)

\* with its undo option on the Buffer keeps every change of the text: at
\* offset pos, old went and new came; mode is the command that made it
Edit(mode, pos, old, new) == [mode |-> mode, pos |-> pos, old |-> old, new |-> new]

\* the undo option off (the default), nothing kept
NoUndo == [enabled |-> FALSE, stack |-> <<>>, redo |-> <<>>, last |-> ""]

\* the characters [q1, q2) the widget's delete of [p1, p2) takes
DeleteSpan(b, p1, p2) ==
    IF p1 >= p2 THEN <<p1, p1>>
    ELSE LET atEnd == p2 = Len(b)
             q2 == IF atEnd THEN p2 - 1 ELSE p2
             q1 == IF atEnd /\ p1 > 0 /\ b[p1] = NL THEN p1 - 1 ELSE p1
         IN  IF q1 >= q2 THEN <<q1, q1>> ELSE <<q1, q2>>

\* the edits the Buffer keeps for a command it accepted: none with the
\* undo option off
EditsOf(b, t, m, op) ==
    LET changes(e) == e.old # <<>> \/ e.new # <<>>
        deleted(span) == Edit(op.cmd, span[1], SubSeq(b, span[1] + 1, span[2]), <<>>)
        insertedAt(len, p) == Edit(op.cmd, Min(p, len - 1), <<>>, op.text)
        replaced(p1, d) ==
            insertedAt(Len(d.buf), PosOfIndexStr(d.buf, IndexStr(b, p1)))
        edits(p1, p2) ==
            CASE op.cmd = "insert" -> <<insertedAt(Len(b), p1)>>
              [] op.cmd = "delete" -> <<deleted(DeleteSpan(b, p1, p2))>>
              [] op.cmd = "replace" ->
                    <<deleted(DeleteSpan(b, p1, p2)),
                      replaced(p1, TkDelete(b, t, m, p1, p2))>>
              [] OTHER -> <<>>
        from(p1) ==
            edits(p1, IF op.cmd = "delete" /\ op.n = 1 THEN ForwChars(b, p1, 1)
                      ELSE Index(b, t, m, op.a2).pos)
    IN  IF undo.enabled THEN SelectSeq(from(Index(b, t, m, op.a1).pos), changes)
        ELSE <<>>

\* keeping the edits es: an edit of the mode of the last one joins its unit
\* (a unit is taken back as a whole); a new edit drops what could be redone
RECURSIVE Push(_, _)
Push(h, es) ==
    IF ~h.enabled \/ es = <<>> THEN h
    ELSE Push([h EXCEPT
                 !.stack = IF h.stack # <<>> /\ h.last = Head(es).mode
                           THEN [h.stack EXCEPT ![Len(h.stack)] = Append(@, Head(es))]
                           ELSE Append(h.stack, <<Head(es)>>),
                 !.redo = <<>>,
                 !.last = Head(es).mode],
              Tail(es))

\* taking one edit back, and making it again
Revert(x, e) ==
    LET insert(d) == TkInsert(d.buf, d.tags, d.mark, e.pos, e.old)
    IN  insert(TkDelete(x.buf, x.tags, x.mark, e.pos, e.pos + Len(e.new)))

Reapply(x, e) ==
    LET insert(d) == TkInsert(d.buf, d.tags, d.mark, e.pos, e.new)
    IN  insert(TkDelete(x.buf, x.tags, x.mark, e.pos, e.pos + Len(e.old)))

\* "edit undo": the last unit's edits, the last one first
RECURSIVE RevertAll(_, _)
RevertAll(x, es) ==
    IF es = <<>> THEN x
    ELSE RevertAll(Revert(x, es[Len(es)]), SubSeq(es, 1, Len(es) - 1))

\* "edit redo": the unit last taken back, in the order it was made
RECURSIVE ReapplyAll(_, _)
ReapplyAll(x, es) ==
    IF es = <<>> THEN x
    ELSE ReapplyAll(Reapply(x, Head(es)), Tail(es))

\* the stacks after "edit undo" and after "edit redo"
Undone(h) ==
    [h EXCEPT !.stack = SubSeq(h.stack, 1, Len(h.stack) - 1),
              !.redo = Append(h.redo, h.stack[Len(h.stack)]),
              !.last = "undo"]

Redone(h) ==
    [h EXCEPT !.redo = SubSeq(h.redo, 1, Len(h.redo) - 1),
              !.stack = Append(h.stack, h.redo[Len(h.redo)]),
              !.last = "redo"]

(* --------------------- the Buffer: widget command ---------------------- *)

\* a widget command: cmd is the command word, sub its sub-command (tag, edit,
\* mark), n is len(args), a1 and a2 the position arguments, text the characters
Op(cmd, sub, n, a1, a2, text) ==
    [cmd |-> cmd, sub |-> sub, n |-> n, a1 |-> a1, a2 |-> a2, text |-> text]

NoText == <<>>

\* no command: no call in progress, no handler bound
NoCall == Op("", "", 0, End, End, NoText)

\* what the Buffer answers: err is NoError on success
Answer(err, b, t, m, value) ==
    [err |-> err, buf |-> b, tags |-> t, mark |-> m, value |-> value]

\* the index string as the characters of the result
IndexValue(b, p) == <<ToString(IndexStr(b, p)[1]), ".", ToString(IndexStr(b, p)[2])>>

\* the original widget command (self._orig) executing op; "edit" reads the
\* Buffer's own stacks
Forward(b, t, m, op) ==
    LET fail(e) == Answer(e, b, t, m, <<>>)
        done(x) == Answer(NoError, x.buf, x.tags, x.mark, <<>>)
        forward(r1, r2) ==
            CASE op.cmd = "insert" ->
                    IF r1.err # NoError THEN fail(r1.err)
                    ELSE done(TkInsert(b, t, m, r1.pos, op.text))
              [] op.cmd = "delete" ->
                    IF r1.err # NoError THEN fail(r1.err)
                    ELSE IF op.n = 1
                         THEN done(TkDelete(b, t, m, r1.pos, ForwChars(b, r1.pos, 1)))
                    ELSE IF r2.err # NoError THEN fail(r2.err)
                    ELSE done(TkDelete(b, t, m, r1.pos, r2.pos))
              [] op.cmd = "replace" ->
                    IF r1.err # NoError THEN fail(r1.err)
                    ELSE IF r2.err # NoError THEN fail(r2.err)
                    ELSE IF r1.pos > r2.pos THEN fail(ErrBefore)
                    ELSE done(TkReplace(b, t, m, r1.pos, r2.pos, op.text))
              [] op.cmd = "get" ->
                    IF r1.err # NoError THEN fail(r1.err)
                    ELSE IF r2.err # NoError THEN fail(r2.err)
                    ELSE Answer(NoError, b, t, m, Get(b, r1.pos, r2.pos))
              [] op.cmd = "index" ->
                    IF r1.err # NoError THEN fail(r1.err)
                    ELSE Answer(NoError, b, t, m, IndexValue(b, r1.pos))
              [] op.cmd = "tag" ->
                    IF r1.err # NoError THEN fail(r1.err)
                    ELSE IF r2.err # NoError THEN fail(r2.err)
                    ELSE IF op.sub = "add"
                         THEN Answer(NoError, b, TagAdd(t, SelTag, r1.pos, r2.pos), m, <<>>)
                    ELSE Answer(NoError, b, TagRemove(t, {SelTag}, r1.pos, r2.pos), m, <<>>)
              [] op.cmd = "mark" ->
                    IF r1.err # NoError THEN fail(r1.err)
                    ELSE Answer(NoError, b, t, Min(r1.pos, Len(b) - 1), <<>>)
              [] op.cmd = "edit" ->
                    IF op.sub = "undo"
                    THEN IF undo.stack = <<>> THEN fail(ErrNothingToUndo)
                         ELSE done(RevertAll([buf |-> b, tags |-> t, mark |-> m],
                                             undo.stack[Len(undo.stack)]))
                    ELSE IF undo.redo = <<>> THEN fail(ErrNothingToRedo)
                         ELSE done(ReapplyAll([buf |-> b, tags |-> t, mark |-> m],
                                              undo.redo[Len(undo.redo)]))
              [] op.cmd \in {"xview", "yview"} ->
                    Answer(NoError, b, t, m, <<>>)
              [] OTHER -> fail(ErrBadIndex)
    IN  forward(Index(b, t, m, op.a1), Index(b, t, m, op.a2))

(* --------------------------- the interceptor --------------------------- *)

\* what one call of the interceptor did, in order
Ev(ev, cmd, kind, s, e, depth, msg) ==
    [ev |-> ev, cmd |-> cmd, kind |-> kind, s |-> s, e |-> e, depth |-> depth,
     msg |-> msg]
CallEv(cmd, depth) == Ev("call", cmd, "", 0, 0, depth, NoError)
PassEv(kind, s, e, depth) == Ev("pass", "", kind, s, e, depth, NoError)
NotifyEv == Ev("notify", "", "", 0, 0, 0, NoError)
ForwardEv == Ev("forward", "", "", 0, 0, 0, NoError)
HandlerEv == Ev("handler", "", "", 0, 0, 0, NoError)
ReturnEv == Ev("return", "", "", 0, 0, 0, NoError)
ErrorEv(msg) == Ev("tclerror", "", "", 0, 0, 0, msg)

Returned(value) == [kind |-> "return", err |-> NoError, value |-> value]
Raised(msg) == [kind |-> "raise", err |-> msg, value |-> <<>>]

\* as Benign, without the "nothing to" test
Benign_SelOnly(msg) == \E i \in 1..Len(msg) : msg[i] = "tagged with \"sel\""

\* as Benign, with every TclError taken for a benign one
Benign_Any(msg) == Len(msg) >= 0

\* 'tagged with "sel"' in error or "nothing to" in error
Benign(msg) ==
    \E i \in 1..Len(msg) : msg[i] = "tagged with \"sel\"" \/ msg[i] = "nothing to"

\* as PassKind, with tag commands taken for changes of the text
PassKind_Tag(command) ==
    IF command = "insert" THEN "insert"
    ELSE IF command \in {"replace", "delete", "tag"} THEN "change"
    ELSE "none"

\* the branch _cmd_proxy takes after a successful forward
PassKind(command) ==
    IF command = "insert" THEN "insert"
    ELSE IF command \in {"replace", "delete"} THEN "change"
    ELSE "none"

\* a command a pass sends through the interceptor itself
InnerCall(cmd, depth) ==
    <<CallEv(cmd, depth)>>
        \o (IF PassKind(cmd) # "none" THEN <<PassEv("nested", 0, 0, depth)>> ELSE <<>>)

\* the commands the body of highlight_line sends through the interceptor
LinePassCalls ==
    InnerCall("index", 1) \o InnerCall("tag", 1) \o InnerCall("get", 1)
        \o InnerCall("tag", 1)

\* the commands the body of highlight_area / highlight_all sends through it
AreaPassCalls ==
    InnerCall("tag", 1) \o InnerCall("get", 1) \o InnerCall("index", 1)
        \o InnerCall("tag", 1)

\* a line pass over the line of "<line>.0", with its log
LinePass(b, t, lexer, line) ==
    LET pass(p, line_num) ==
            [tags |-> highlight_line(b, t, lexer, p),
             log |-> <<PassEv("line", line_num, line_num, 0)>> \o LinePassCalls]
        at(p) == pass(p, IndexStr(b, p)[1])
    IN  at(PosOfLC(b, line, 0))

\* a range pass, with its log
AreaPass(b, t, lexer, start_line, end_line) ==
    [tags |-> highlight_area(b, t, lexer, start_line, end_line),
     log |-> <<PassEv("area", start_line, end_line, 0)>> \o AreaPassCalls]

\* args[1] read as a position: the end position of replace, the text of an
\* insert that carries a tag list
SecondArg(op) == IF op.cmd = "insert" THEN BadIndex ELSE op.a2

\* as Passed, the notification raised before the pass has put its tags on
Passed_NotYet(ans, pass) == ans

\* the Buffer once the pass that follows a mutation has run to its end
Passed(ans, pass) == [ans EXCEPT !.tags = pass.tags]

\* what a handler bound to <<ContentChanged>> finds when it starts
Seen(ans) == <<[buf |-> ans.buf, tags |-> ans.tags, mark |-> ans.mark]>>

\* _cmd_proxy(command, *args): [buf, tags, mark, log, ret, saw, edits];
\* handler is the command the caller's handler of <<ContentChanged>> sends
\* (it takes itself off first), NoCall when the caller has bound none
RECURSIVE _cmd_proxy(_, _, _, _, _, _)
_cmd_proxy(b, t, m, lexer, handler, op) ==
    LET enter == <<CallEv(op.cmd, 0)>>
        out(x, l, r, seen, es) ==
            [buf |-> x.buf, tags |-> x.tags, mark |-> x.mark, log |-> l, ret |-> r,
             saw |-> seen, edits |-> es]
        \* the handler has run: return the result
        handled(ans, l, inner) ==
            out(inner, l \o <<HandlerEv>> \o inner.log \o <<ReturnEv>>,
                Returned(ans.value), Seen(ans), EditsOf(b, t, m, op) \o inner.edits)
        \* event_generate("<<ContentChanged>>") runs the handlers at once
        event_generate(ans, l) ==
            IF handler = NoCall
            THEN out(ans, l \o <<NotifyEv, ReturnEv>>, Returned(ans.value), <<>>,
                     EditsOf(b, t, m, op))
            ELSE handled(ans, l \o <<NotifyEv>>,
                         _cmd_proxy(ans.buf, ans.tags, ans.mark, lexer, NoCall, handler))
        \* the highlight pass is done: notify
        notify(ans, pass) ==
            event_generate(Passed(ans, pass), enter \o <<ForwardEv>> \o pass.log)
        \* after "insert": start_line is one less unless args[0] is "insert"
        inserted(ans, sl, lines) ==
            notify(ans, IF lines = 1 THEN LinePass(ans.buf, ans.tags, lexer, sl)
                        ELSE AreaPass(ans.buf, ans.tags, lexer, sl, sl + lines))
        \* after "replace" and "delete"
        changed(ans, start_line, end_line) ==
            notify(ans, IF start_line = end_line
                        THEN LinePass(ans.buf, ans.tags, lexer, start_line)
                        ELSE AreaPass(ans.buf, ans.tags, lexer, start_line, end_line))
        \* the Buffer has answered
        answered(ans, start_line, end_line) ==
            IF ans.err # NoError
            THEN out(ans, enter \o <<ErrorEv(ans.err)>>,
                     IF Benign(ans.err) THEN Returned(<<>>) ELSE Raised(ans.err),
                     <<>>, <<>>)
            ELSE IF PassKind(op.cmd) = "insert"
            THEN inserted(ans,
                          IF op.a1 # InsertMark THEN start_line - 1 ELSE start_line,
                          CountNl(op.text))
            ELSE IF PassKind(op.cmd) = "change"
            THEN changed(ans, start_line, end_line)
            ELSE out(ans, enter \o <<ForwardEv, ReturnEv>>, Returned(ans.value),
                     <<>>, <<>>)
        \* the try block, the positions resolved (r1, r2) where it resolves them
        try(preErr, start_line, r2) ==
            answered(IF preErr # NoError THEN Answer(preErr, b, t, m, <<>>)
                     ELSE Forward(b, t, m, op),
                     start_line,
                     IF op.n = 3 THEN IndexStr(b, r2.pos)[1] - 1 ELSE start_line)
        resolved(r1, r2) ==
            try(IF op.cmd \notin {"insert", "delete", "replace"} THEN NoError
                ELSE IF r1.err # NoError THEN r1.err
                ELSE IF op.n = 3 /\ r2.err # NoError THEN r2.err
                ELSE NoError,
                IndexStr(b, r1.pos)[1], r2)
    IN  resolved(Index(b, t, m, op.a1), Index(b, t, m, SecondArg(op)))

(* ------------------------ scrollbars and gutter ------------------------ *)

\* a fraction of the text, as <<numerator, denominator>>
Frac(n, d) == <<n, d>>

\* float(low) <= 0.0 and float(high) >= 1.0
ShowsAll(low, high) == low[1] <= 0 /\ high[1] >= high[2]

\* Scrollbar.set(low, high): an autohide scrollbar leaves the grid when all
\* of the text shows and comes back when not
Scrollbar_set(sb, low, high) ==
    [sb EXCEPT !.low = low, !.high = high,
               !.shown = IF sb.autohide THEN ~ShowsAll(low, high) ELSE @]

\* the scrollbar as constructed: autohide_scrollbar is True, it is on the grid
Scrollbar ==
    [autohide |-> TRUE, low |-> Frac(0, 1), high |-> Frac(1, 1), shown |-> TRUE]

\* _line_numbers.redraw(): one number for every line of the Buffer
redraw(b) == NumLines(b)

\* horizontal_scroll(first, last)
horizontal_scroll(hs, first, last) == Scrollbar_set(hs, first, last)

\* as vertical_scroll, starting a pass over the text that shows: the
\* highlight tags are taken off it
vertical_scroll_Clear(b, t, vs, first, last) ==
    [vs |-> Scrollbar_set(vs, first, last), drawn |-> redraw(b),
     tags |-> TagRemove(t, HighlightNames(t), 0, Len(b))]

\* vertical_scroll(first, last): the scrollbar, the gutter, and the tags of
\* the Buffer, which it leaves alone
vertical_scroll(b, t, vs, first, last) ==
    [vs |-> Scrollbar_set(vs, first, last), drawn |-> redraw(b), tags |-> t]

\* scroll_line_update(): both, with what xview() and yview() answer
scroll_line_update(b, t, hs, vs, v) ==
    LET both(across, down) ==
            [hs |-> across, vs |-> down.vs, drawn |-> down.drawn, tags |-> down.tags]
    IN  both(horizontal_scroll(hs, v.x[1], v.x[2]),
             vertical_scroll(b, t, vs, v.y[1], v.y[2]))

\* the Buffer showing all of its text, as it does when constructed
WholeView == <<Frac(0, 1), Frac(1, 1)>>

(* ------------------------------ inputs --------------------------------- *)

\* the (first, last) fractions the Buffer reports: all of the text, its
\* upper half, its lower half
Views == {WholeView, <<Frac(0, 2), Frac(1, 2)>>, <<Frac(1, 2), Frac(2, 2)>>}

\* "line.col" positions a caller writes
LinePositions == {LC(l, c) : l \in 1..MaxLine, c \in 0..1}

\* every form of position a caller writes
Positions == LinePositions \cup {InsertMark, End, SelFirst, SelLast, BadIndex}

\* where a caller inserts
InsertPositions == {LC(l, 0) : l \in 1..MaxLine} \cup {LC(1, 1), InsertMark, End, SelFirst, BadIndex}

\* texts a caller inserts: no newline, one line, several lines, a leading blank line
Texts ==
    {<<"a">>, <<"1">>, <<SP>>, <<NL>>, <<"a", NL>>, <<"a", "1", NL>>,
     <<SP, NL, "a", NL>>}

\* texts a caller puts in place of a range
ReplaceTexts == {<<"a">>, <<NL>>, <<"1", NL>>}

\* the (start, end) pairs a caller gives: inside a line, across lines, up to
\* "end", reversed, the selection, from the insert mark, not a position
Ranges ==
    {<<LC(l, 0), LC(l, 1)>> : l \in 1..MaxLine}
        \cup {<<LC(l, c), LC(l + 1, c)>> : l \in 1..(MaxLine - 1), c \in 0..1}
        \cup {<<LC(l, 0), End>> : l \in 1..MaxLine}
        \cup {<<LC(1, 1), LC(1, 0)>>, <<SelFirst, SelLast>>, <<InsertMark, End>>,
              <<BadIndex, End>>, <<LC(1, 0), BadIndex>>}

\* the ranges a caller reads
GetRanges == {<<LC(1, 0), End>>, <<SelFirst, SelLast>>, <<LC(1, 0), BadIndex>>}

NoRun == [text |-> NoText, count |-> 0]

\* a text that is one whole line: it ends in its only newline
IsOneLine(text) == CountNl(text) = 1 /\ text[Len(text)] = NL

(* ------------------------------ actions -------------------------------- *)

\* no call is in progress and the last call's record has been dropped
Idle == log = <<>> /\ calls < MaxCalls

\* the Buffer accepted the command
Succeeded(l) == \E i \in 1..Len(l) : l[i].ev = "forward"

\* the Buffer when <<ContentChanged>> was last raised in the call
Notified(x) ==
    IF x.saw # <<>> /\ Cardinality({i \in 1..Len(x.log) : x.log[i].ev = "notify"}) = 1
    THEN x.saw[1]
    ELSE [buf |-> x.buf, tags |-> x.tags, mark |-> x.mark]

\* the call op came back as r: the Buffer, the record of the call, the
\* Buffer's stacks, and what the handlers of <<ContentChanged>> did
\* (scroll_line_update, bound by the constructor, then the caller's)
Apply(op, r) ==
    \E x \in {r} :
        /\ call' = op
        /\ calls' = calls + 1
        /\ buf' = x.buf
        /\ tags' = x.tags
        /\ mark' = x.mark
        /\ log' = x.log
        /\ ret' = x.ret
        /\ undo' = IF op.cmd = "edit"
                   THEN IF ~Succeeded(x.log) THEN undo
                        ELSE IF op.sub = "undo" THEN Undone(undo) ELSE Redone(undo)
                   ELSE Push(undo, x.edits)
        /\ bound' = IF x.saw # <<>> THEN NoCall ELSE bound
        /\ saw' = IF x.saw # <<>> THEN x.saw ELSE saw
        /\ \E n \in {Notified(x)} :
           \E u \in {IF \E i \in 1..Len(x.log) : x.log[i].ev = "notify"
                      THEN scroll_line_update(n.buf, n.tags, _hs, _vs, view)
                      ELSE [hs |-> _hs, vs |-> _vs, drawn |-> _line_numbers]} :
               /\ _hs' = u.hs
               /\ _vs' = u.vs
               /\ _line_numbers' = u.drawn

\* codeview.insert(e, text)
Insert(e, text) ==
    /\ Idle
    /\ Len(buf) + Len(text) + Len(bound.text) <= MaxLen + 1
    /\ \E r \in {_cmd_proxy(buf, tags, mark, _lexer, bound, Op("insert", "", 2, e, e, text))} :
           /\ Apply(Op("insert", "", 2, e, e, text), r)
           /\ run' = IF e = LC(1, 0) /\ IsOneLine(text) /\ r.ret.kind = "return"
                     THEN [text |-> text,
                           count |-> IF run.text = text THEN run.count + 1 ELSE 1]
                     ELSE NoRun
    /\ UNCHANGED <<config_vars, view>>

\* codeview.insert(e, text, tag): a third argument after the text
InsertTagged(e, text) ==
    /\ Idle
    /\ Len(buf) + Len(text) + Len(bound.text) <= MaxLen + 1
    /\ Apply(Op("insert", "", 3, e, e, text),
             _cmd_proxy(buf, tags, mark, _lexer, bound, Op("insert", "", 3, e, e, text)))
    /\ run' = NoRun
    /\ UNCHANGED <<config_vars, view>>

\* codeview.delete(e)
Delete1(e) ==
    /\ Idle
    /\ Apply(Op("delete", "", 1, e, e, NoText),
             _cmd_proxy(buf, tags, mark, _lexer, bound, Op("delete", "", 1, e, e, NoText)))
    /\ run' = NoRun
    /\ UNCHANGED <<config_vars, view>>

\* codeview.delete(e1, e2)
Delete2(e1, e2) ==
    /\ Idle
    /\ Apply(Op("delete", "", 2, e1, e2, NoText),
             _cmd_proxy(buf, tags, mark, _lexer, bound, Op("delete", "", 2, e1, e2, NoText)))
    /\ run' = NoRun
    /\ UNCHANGED <<config_vars, view>>

\* codeview.replace(e1, e2, text)
Replace(e1, e2, text) ==
    /\ Idle
    /\ Len(buf) + Len(text) + Len(bound.text) <= MaxLen + 1
    /\ Apply(Op("replace", "", 3, e1, e2, text),
             _cmd_proxy(buf, tags, mark, _lexer, bound, Op("replace", "", 3, e1, e2, text)))
    /\ run' = NoRun
    /\ UNCHANGED <<config_vars, view>>

\* codeview.get(e1, e2)
GetText(e1, e2) ==
    /\ Idle
    /\ Apply(Op("get", "", 2, e1, e2, NoText),
             _cmd_proxy(buf, tags, mark, _lexer, bound, Op("get", "", 2, e1, e2, NoText)))
    /\ run' = NoRun
    /\ UNCHANGED <<config_vars, view>>

\* codeview.index(e)
IndexOf(e) ==
    /\ Idle
    /\ Apply(Op("index", "", 1, e, e, NoText),
             _cmd_proxy(buf, tags, mark, _lexer, bound, Op("index", "", 1, e, e, NoText)))
    /\ run' = NoRun
    /\ UNCHANGED <<config_vars, view>>

\* codeview.tag_remove("sel", "1.0", "end")
TagRemoveSel ==
    /\ Idle
    /\ Apply(Op("tag", "remove", 3, LC(1, 0), End, NoText),
             _cmd_proxy(buf, tags, mark, _lexer, bound, Op("tag", "remove", 3, LC(1, 0), End, NoText)))
    /\ run' = NoRun
    /\ UNCHANGED <<config_vars, view>>

\* _select_all: tag_add("sel", "1.0", "end") then mark_set("insert", "end")
SelectAll ==
    /\ Idle
    /\ \E r1 \in {_cmd_proxy(buf, tags, mark, _lexer, bound,
                            Op("tag", "add", 3, LC(1, 0), End, NoText))} :
       \E r2 \in {_cmd_proxy(r1.buf, r1.tags, r1.mark, _lexer, bound,
                            Op("mark", "set", 2, End, End, NoText))} :
           Apply(Op("tag", "add", 3, LC(1, 0), End, NoText),
                 [r2 EXCEPT !.log = r1.log \o r2.log])
    /\ run' = NoRun
    /\ UNCHANGED <<config_vars, view>>

\* codeview.edit_undo()
EditUndo ==
    /\ Idle
    /\ Apply(Op("edit", "undo", 1, End, End, NoText),
             _cmd_proxy(buf, tags, mark, _lexer, bound, Op("edit", "undo", 1, End, End, NoText)))
    /\ run' = NoRun
    /\ UNCHANGED <<config_vars, view>>

\* redo(): edit_redo(), any TclError passed over
Redo ==
    /\ Idle
    /\ LET r == _cmd_proxy(buf, tags, mark, _lexer, bound, Op("edit", "redo", 1, End, End, NoText))
       IN  Apply(Op("edit", "redo", 1, End, End, NoText),
                 [r EXCEPT !.ret = Returned(<<>>)])
    /\ run' = NoRun
    /\ UNCHANGED <<config_vars, view>>

\* codeview.highlight_line("<line>.0")
HighlightLine(line) ==
    /\ Idle
    /\ \E pass \in {LinePass(buf, tags, _lexer, line)} :
           /\ tags' = pass.tags
           /\ log' = pass.log
    /\ call' = Op("highlight_line", "", 1, LC(line, 0), LC(line, 0), NoText)
    /\ ret' = Returned(<<>>)
    /\ run' = NoRun
    /\ calls' = calls + 1
    /\ UNCHANGED <<buf, mark, config_vars, undo, view, handler_vars>>

\* codeview.highlight_area(start_line, end_line)
HighlightArea(start_line, end_line) ==
    /\ Idle
    /\ \E pass \in {AreaPass(buf, tags, _lexer, start_line, end_line)} :
           /\ tags' = pass.tags
           /\ log' = pass.log
    /\ call' = Op("highlight_area", "", 2, LC(start_line, 0), LC(end_line, 0), NoText)
    /\ ret' = Returned(<<>>)
    /\ run' = NoRun
    /\ calls' = calls + 1
    /\ UNCHANGED <<buf, mark, config_vars, undo, view, handler_vars>>

\* codeview.highlight_all()
HighlightAll ==
    /\ Idle
    /\ tags' = highlight_all(buf, tags, _lexer)
    /\ log' = <<PassEv("all", 1, NumLines(buf), 0)>> \o AreaPassCalls
    /\ call' = Op("highlight_all", "", 0, End, End, NoText)
    /\ ret' = Returned(<<>>)
    /\ run' = NoRun
    /\ calls' = calls + 1
    /\ UNCHANGED <<buf, mark, config_vars, undo, view, handler_vars>>

\* root.mainloop(): the call has returned to the event loop; the record of
\* what it did is dropped before the next event is handled
Mainloop ==
    /\ log # <<>>
    /\ log' = <<>>
    /\ call' = NoCall
    /\ ret' = Returned(<<>>)
    /\ UNCHANGED <<buf, tags, mark, run, calls, config_vars, undo, view, handler_vars>>

(* ----------------------------- color scheme ----------------------------- *)

\* a dict is a function on its keys; None is the value of a key that is not
\* there; a table that may be missing is <<>> (None) or <<d>> (the dict d)
None == "None"
NoScheme == <<>>
DictGet(d, key) == IF key \in DOMAIN d THEN d[key] ELSE None
TableGet(d, key) == IF key \in DOMAIN d THEN <<d[key]>> ELSE <<>>
\* dict.update: the entries of d2 replace those of d1
Update(d1, d2) == d2 @@ d1

_editor_keys_map ==
    ("background" :> "bg") @@ ("foreground" :> "fg") @@
    ("selectbackground" :> "select_bg") @@ ("selectforeground" :> "select_fg") @@
    ("inactiveselectbackground" :> "inactive_select_bg") @@
    ("insertbackground" :> "caret") @@ ("insertwidth" :> "caret_width") @@
    ("borderwidth" :> "border_width") @@
    ("highlightthickness" :> "focus_border_width")

_extras == ("Error" :> "error") @@ ("Literal.Date" :> "date")

_keywords ==
    ("Keyword.Constant" :> "constant") @@ ("Keyword.Declaration" :> "declaration") @@
    ("Keyword.Namespace" :> "namespace") @@ ("Keyword.Pseudo" :> "pseudo") @@
    ("Keyword.Reserved" :> "reserved") @@ ("Keyword.Type" :> "type")

_names ==
    ("Name.Attribute" :> "attr") @@ ("Name.Builtin" :> "builtin") @@
    ("Name.Builtin.Pseudo" :> "builtin_pseudo") @@ ("Name.Class" :> "class") @@
    ("Name.Constant" :> "constant") @@ ("Name.Decorator" :> "decorator") @@
    ("Name.Entity" :> "entity") @@ ("Name.Exception" :> "exception") @@
    ("Name.Function" :> "function") @@
    ("Name.Function.Magic" :> "magic_function") @@ ("Name.Label" :> "label") @@
    ("Name.Namespace" :> "namespace") @@ ("Name.Tag" :> "tag") @@
    ("Name.Variable" :> "variable") @@
    ("Name.Variable.Class" :> "class_variable") @@
    ("Name.Variable.Global" :> "global_variable") @@
    ("Name.Variable.Instance" :> "instance_variable") @@
    ("Name.Variable.Magic" :> "magic_variable")

_strings ==
    ("Literal.String.Affix" :> "affix") @@ ("Literal.String.Backtick" :> "backtick") @@
    ("Literal.String.Char" :> "char") @@ ("Literal.String.Delimeter" :> "delimeter") @@
    ("Literal.String.Doc" :> "doc") @@ ("Literal.String.Double" :> "double") @@
    ("Literal.String.Escape" :> "escape") @@ ("Literal.String.Heredoc" :> "heredoc") @@
    ("Literal.String.Interpol" :> "interpol") @@ ("Literal.String.Regex" :> "regex") @@
    ("Literal.String.Single" :> "single") @@ ("Literal.String.Symbol" :> "symbol")

_numbers ==
    ("Literal.Number.Bin" :> "binary") @@ ("Literal.Number.Float" :> "float") @@
    ("Literal.Number.Hex" :> "hex") @@ ("Literal.Number.Integer" :> "integer") @@
    ("Literal.Number.Integer.Long" :> "long") @@ ("Literal.Number.Oct" :> "octal")

_comments ==
    ("Comment.Hashbang" :> "hashbang") @@ ("Comment.Multiline" :> "multiline") @@
    ("Comment.Preproc" :> "preproc") @@ ("Comment.PreprocFile" :> "preprocfile") @@
    ("Comment.Single" :> "single") @@ ("Comment.Special" :> "special")

_generic ==
    ("Generic.Emph" :> "emphasis") @@ ("Generic.Error" :> "error") @@
    ("Generic.Heading" :> "heading") @@ ("Generic.Strong" :> "strong") @@
    ("Generic.Subheading" :> "subheading")

\* the table _parse_scheme writes out for the operators
_operators == ("Operator" :> "symbol") @@ ("Operator.Word" :> "word")

\* as _parse_table, without the "elif fallback is not None" branch
_parse_table_NoElif(source, map_, fallback) ==
    IF source # <<>>
    THEN [token \in DOMAIN map_ |->
            LET value == DictGet(source[1], map_[token])
            IN  IF value = None THEN fallback ELSE value]
    ELSE <<>>

_parse_table(source, map_, fallback) ==
    IF source # <<>>
    THEN [token \in DOMAIN map_ |->
            LET value == DictGet(source[1], map_[token])
            IN  IF value = None THEN fallback ELSE value]
    ELSE IF fallback # None
    THEN [token \in DOMAIN map_ |-> fallback]
    ELSE <<>>

\* the scheme has a "general" table (the assert of _parse_scheme holds)
_parse_scheme(scheme) ==
    LET editor == IF "editor" \in DOMAIN scheme
                  THEN [tk_name \in DOMAIN _editor_keys_map |->
                            DictGet(scheme["editor"], _editor_keys_map[tk_name])]
                  ELSE <<>>
        general == scheme["general"]
        error == DictGet(general, "error")
        escape == DictGet(general, "escape")
        punctuation == DictGet(general, "punctuation")
        general_comment == DictGet(general, "comment")
        general_keyword == DictGet(general, "keyword")
        general_name == DictGet(general, "name")
        general_string == DictGet(general, "string")
        t0 == ("Error" :> error) @@ ("Escape" :> escape) @@
              ("Punctuation" :> punctuation) @@ ("Comment" :> general_comment) @@
              ("Keyword" :> general_keyword) @@
              ("Keyword.Other" :> general_keyword) @@
              ("Literal.String" :> general_string) @@
              ("Literal.String.Other" :> general_string) @@
              ("Name.Other" :> general_name)
        t1 == Update(t0, _parse_table(TableGet(scheme, "keyword"), _keywords, general_keyword))
        t2 == Update(t1, _parse_table(TableGet(scheme, "name"), _names, general_name))
        t3 == Update(t2, _parse_table(TableGet(scheme, "operator"), _operators, None))
        t4 == Update(t3, _parse_table(TableGet(scheme, "string"), _strings, general_string))
        t5 == Update(t4, _parse_table(TableGet(scheme, "number"), _numbers, None))
        t6 == Update(t5, _parse_table(TableGet(scheme, "comment"), _comments, general_comment))
        t7 == Update(t6, _parse_table(TableGet(scheme, "generic"), _generic, None))
        t8 == Update(t7, _parse_table(TableGet(scheme, "extras"), _extras, None))
    IN  [editor |-> editor, tags |-> t8]

\* the foreground of the Buffer's tags after tag_configure for every
\* key whose value is a string
_setup_tags(fg, tags_) ==
    LET set == {key \in DOMAIN tags_ : tags_[key] # None}
    IN  [name \in DOMAIN fg \cup {<<"Token", key>> : key \in set} |->
            IF name[2] \in set THEN tags_[name[2]] ELSE fg[name]]

\* Text.configure(**config): an option given as None is left as it was
TextConfigure(opts, config) ==
    LET set == {o \in DOMAIN config : config[o] # None}
    IN  [o \in DOMAIN opts \cup set |-> IF o \in set THEN config[o] ELSE opts[o]]

\* the entries a scheme is made of: <<table, key, value>>
GeneralColor == "#ff0000"
TableColor == "#00ff00"
Categories ==
    {"keyword", "name", "operator", "string", "number", "comment", "generic", "extras"}
Entries ==
    {<<"general", key, GeneralColor>> : key \in Categories \cup {"error"}} \cup
    {<<"keyword", "constant", TableColor>>, <<"operator", "symbol", TableColor>>,
     <<"extras", "date", TableColor>>, <<"extras", "error", TableColor>>,
     <<"editor", "bg", TableColor>>}

RECURSIVE EntrySets(_)
EntrySets(n) ==
    IF n = 0 THEN {{}}
    ELSE LET smaller == EntrySets(n - 1)
         IN  smaller \cup {E \cup {x} : E \in smaller, x \in Entries}

\* the dict of dicts with the entries E, and with a "general" table if asked
SchemeOf(E, with_general) ==
    [table \in {x[1] : x \in E} \cup (IF with_general THEN {"general"} ELSE {}) |->
        [key \in {x[2] : x \in {y \in E : y[1] = table}} |->
            (CHOOSE x \in E : x[1] = table /\ x[2] = key)[3]]]

Schemes == {SchemeOf(E, g) : E \in EntrySets(MaxEntries), g \in BOOLEAN}

\* the schemes of a few entries: a general value, a table value that
\* overrides one, an editor option
FewEntries ==
    {<<"general", "keyword", GeneralColor>>, <<"general", "error", GeneralColor>>,
     <<"keyword", "constant", TableColor>>, <<"extras", "date", TableColor>>,
     <<"editor", "bg", TableColor>>}

FewSchemes ==
    {SchemeOf(E, g) : E \in {F \in EntrySets(MaxEntries) : F \subseteq FewEntries},
                      g \in BOOLEAN}

\* the names of the bundled schemes, and what a bundled file holds: any
\* scheme with a general table
_builtin_color_schemes == {"ayu-dark", "ayu-light", "dracula", "mariana", "monokai"}
Bundled == {scheme \in FewSchemes : "general" \in DOMAIN scheme}

\* the names a caller gives: a bundled scheme, and one that is none
SchemeNames == {"dracula", "nord"}

\* assert isinstance(color_scheme, dict), and assert "general" in color_scheme
AssertionError == <<"AssertionError">>
AssertEv == Ev("assert", "", "", 0, 0, 0, AssertionError)

\* the argument of _set_color_scheme: a dict, or a string
Dict(scheme) == [str |-> "", dict |-> scheme]
Str(name) == [str |-> name, dict |-> NoScheme]

\* what the widget holds of a scheme
Styled(err, opts, fg, styles, scheme) ==
    [err |-> err, options |-> opts, foreground |-> fg, tag_styles |-> styles,
     color_scheme |-> scheme]

\* as _set_color_scheme, with the scheme of the constructor's default put in
\* the place of one that is not a dict with a general table
_set_color_scheme_Default(w, arg, loaded) ==
    LET set(scheme, x) ==
            Styled(NoError, TextConfigure(w.options, x.editor),
                   _setup_tags(w.foreground, x.tags), x.tags, scheme)
        parse(scheme) == set(scheme, _parse_scheme(scheme))
    IN  IF arg.str \in _builtin_color_schemes THEN parse(loaded)
        ELSE IF arg.str # "" \/ "general" \notin DOMAIN arg.dict
        THEN parse(SchemeOf({<<"general", "error", GeneralColor>>}, TRUE))
        ELSE parse(arg.dict)

\* _set_color_scheme(color_scheme) up to highlight_all: w is what the widget
\* holds, loaded what the file of a bundled scheme holds; the assertions
\* come before configure and _setup_tags
_set_color_scheme(w, arg, loaded) ==
    LET set(scheme, x) ==
            Styled(NoError, TextConfigure(w.options, x.editor),
                   _setup_tags(w.foreground, x.tags), x.tags, scheme)
        parse(scheme) == set(scheme, _parse_scheme(scheme))
    IN  IF arg.str \in _builtin_color_schemes THEN parse(loaded)
        ELSE IF arg.str # "" \/ "general" \notin DOMAIN arg.dict
        THEN [w EXCEPT !.err = AssertionError]
        ELSE parse(arg.dict)

\* what the widget holds of the scheme set last
Widget == Styled(NoError, options, foreground, tag_styles, color_scheme)

\* configure(color_scheme=arg) has set w, or has raised
Configure(w) ==
    /\ options' = w.options
    /\ foreground' = w.foreground
    /\ tag_styles' = w.tag_styles
    /\ color_scheme' = w.color_scheme
    /\ tags' = IF w.err = NoError THEN highlight_all(buf, tags, _lexer) ELSE tags
    /\ log' = IF w.err = NoError
              THEN <<CallEv("configure", 0), PassEv("all", 1, NumLines(buf), 0)>>
                       \o AreaPassCalls
              ELSE <<CallEv("configure", 0), AssertEv>>
    /\ ret' = IF w.err = NoError THEN Returned(<<>>) ELSE Raised(w.err)
    /\ call' = Op("configure", "color_scheme", 0, End, End, NoText)
    /\ run' = NoRun
    /\ calls' = calls + 1
    /\ UNCHANGED <<buf, mark, _lexer, undo, view, handler_vars>>

\* codeview.configure(color_scheme=scheme), scheme a dict
SetColorScheme(scheme) ==
    /\ log = <<>>
    /\ \E w \in {_set_color_scheme(Widget, Dict(scheme), NoScheme)} : Configure(w)

\* codeview.configure(color_scheme=name), name a string
SetColorSchemeName(name) ==
    /\ log = <<>>
    /\ \E loaded \in Bundled :
       \E w \in {_set_color_scheme(Widget, Str(name), loaded)} : Configure(w)

\* the lexers a caller gives
Lexers == {PythonLexer, TextLexer}

\* codeview.configure(lexer=lexer): _set_lexer, then highlight_all
SetLexer(lexer) ==
    /\ log = <<>>
    /\ _lexer' = lexer
    /\ tags' = highlight_all(buf, tags, lexer)
    /\ log' = <<CallEv("configure", 0), PassEv("all", 1, NumLines(buf), 0)>>
                  \o AreaPassCalls
    /\ call' = Op("configure", "lexer", 0, End, End, NoText)
    /\ ret' = Returned(<<>>)
    /\ run' = NoRun
    /\ calls' = calls + 1
    /\ UNCHANGED <<buf, mark, color_scheme, tag_styles, options, foreground, undo,
                   view, handler_vars>>

(* ------------------------- viewport and handlers ----------------------- *)

\* a viewport event: same when the Buffer reports the fractions and shows
\* the text of the viewport event before it
ViewEv(same) == Ev("view", "", IF same THEN "same" ELSE "moved", 0, 0, 0, NoError)

\* the Buffer's view changed or was laid out again: it calls yscrollcommand,
\* which is vertical_scroll
VerticalScroll(first, last) ==
    /\ Idle
    /\ \E r \in {vertical_scroll(buf, tags, _vs, first, last)} :
           /\ _vs' = r.vs
           /\ _line_numbers' = r.drawn
           /\ tags' = r.tags
    /\ view' = [view EXCEPT !.y = <<first, last>>, !.text = buf]
    /\ log' = <<ViewEv(view.y = <<first, last>> /\ view.text = buf)>>
    /\ call' = Op("vertical_scroll", "", 2, End, End, NoText)
    /\ ret' = Returned(<<>>)
    /\ run' = NoRun
    /\ calls' = calls + 1
    /\ UNCHANGED <<buf, mark, config_vars, undo, _hs, bound, saw>>

\* the same across: the Buffer calls xscrollcommand, which is horizontal_scroll
HorizontalScroll(first, last) ==
    /\ Idle
    /\ _hs' = horizontal_scroll(_hs, first, last)
    /\ view' = [view EXCEPT !.x = <<first, last>>, !.text = buf]
    /\ log' = <<ViewEv(view.x = <<first, last>> /\ view.text = buf)>>
    /\ call' = Op("horizontal_scroll", "", 2, End, End, NoText)
    /\ ret' = Returned(<<>>)
    /\ run' = NoRun
    /\ calls' = calls + 1
    /\ UNCHANGED <<buf, tags, mark, config_vars, undo, _vs, _line_numbers, bound, saw>>

\* codeview.scroll_line_update(): the fractions are those the Buffer has
ScrollLineUpdate ==
    /\ Idle
    /\ \E r \in {scroll_line_update(buf, tags, _hs, _vs, view)} :
           /\ _hs' = r.hs
           /\ _vs' = r.vs
           /\ _line_numbers' = r.drawn
           /\ tags' = r.tags
    /\ view' = [view EXCEPT !.text = buf]
    /\ log' = <<ViewEv(view.text = buf)>>
    /\ call' = Op("scroll_line_update", "", 0, End, End, NoText)
    /\ ret' = Returned(<<>>)
    /\ run' = NoRun
    /\ calls' = calls + 1
    /\ UNCHANGED <<buf, mark, config_vars, undo, bound, saw>>

\* the commands a caller's handler of <<ContentChanged>> sends
HandlerOps ==
    {Op("insert", "", 2, LC(1, 0), LC(1, 0), <<"1">>),
     Op("insert", "", 2, End, End, <<"a", NL>>),
     Op("delete", "", 1, LC(1, 0), LC(1, 0), NoText)}

\* codeview.bind("<<ContentChanged>>", handler, add=True): the handler
\* takes itself off and sends op
Bind(op) ==
    /\ Idle
    /\ bound = NoCall
    /\ bound' = op
    /\ log' = <<CallEv("bind", 0)>>
    /\ call' = Op("bind", "", 2, End, End, NoText)
    /\ ret' = Returned(<<>>)
    /\ run' = NoRun
    /\ calls' = calls + 1
    /\ UNCHANGED <<buf, tags, mark, config_vars, undo, view, _hs, _vs, _line_numbers, saw>>

(* --------------------------- specification ----------------------------- *)

\* the widget after construction: an empty buffer (its final newline), no
\* tags, the insert mark at 1.0, the lexer the test gives, the scrollbars and
\* the gutter drawn once; the styles of the built-in scheme the constructor
\* loads from its data file are left out (no scheme set); undo_option is the
\* undo keyword, handed on to the Buffer
Constructed(undo_option) ==
    /\ buf = <<NL>>
    /\ tags = <<{}>>
    /\ mark = 0
    /\ call = NoCall
    /\ log = <<>>
    /\ ret = Returned(<<>>)
    /\ run = NoRun
    /\ calls = 0
    /\ color_scheme = NoScheme
    /\ tag_styles = NoScheme
    /\ options = NoScheme
    /\ foreground = NoScheme
    /\ _lexer = PythonLexer
    /\ undo = [NoUndo EXCEPT !.enabled = undo_option]
    /\ view = [x |-> WholeView, y |-> WholeView, text |-> <<NL>>]
    /\ _hs = Scrollbar
    /\ _vs = Scrollbar
    /\ _line_numbers = redraw(<<NL>>)
    /\ bound = NoCall
    /\ saw = <<>>

Init == Constructed(FALSE)

Next ==
    \/ \E e \in InsertPositions, text \in Texts : Insert(e, text)
    \/ \E e \in {LC(1, 0), InsertMark}, text \in ReplaceTexts : InsertTagged(e, text)
    \/ \E e \in Positions : Delete1(e)
    \/ \E r \in Ranges : Delete2(r[1], r[2])
    \/ \E r \in Ranges, text \in ReplaceTexts : Replace(r[1], r[2], text)
    \/ \E r \in GetRanges : GetText(r[1], r[2])
    \/ \E e \in Positions : IndexOf(e)
    \/ TagRemoveSel
    \/ SelectAll
    \/ EditUndo
    \/ Redo
    \/ \E line \in 1..MaxLine : HighlightLine(line)
    \/ \E s, e \in 1..MaxLine : HighlightArea(s, e)
    \/ HighlightAll
    \/ Mainloop

Spec == Init /\ [][Next]_vars

\* the widget under configure(color_scheme=...) alone, a scheme set once
NextScheme ==
    \/ \E scheme \in Schemes : calls < MaxSchemes /\ SetColorScheme(scheme)
    \/ Mainloop

SpecScheme == Init /\ [][NextScheme]_vars

\* the widget under configure(color_scheme=...), one scheme set after another
NextReconfigure ==
    \/ \E scheme \in FewSchemes : calls < MaxReconfigures /\ SetColorScheme(scheme)
    \/ \E name \in SchemeNames : calls < MaxReconfigures /\ SetColorSchemeName(name)
    \/ Mainloop

SpecReconfigure == Init /\ [][NextReconfigure]_vars

\* texts and places of the inserts that fill the buffer in the runs below
FewTexts == {<<"a">>, <<"a", "1", NL>>, <<SP, NL, "a", NL>>}
FewPositions == {LC(1, 0), End}

\* the schemes set on a widget that holds text
PlainSchemes ==
    {SchemeOf({}, TRUE), SchemeOf({<<"general", "keyword", GeneralColor>>}, TRUE),
     SchemeOf({}, FALSE)}

\* the widget under inserts and configure(lexer=...), configure(color_scheme=...)
NextConfigure ==
    \/ \E e \in FewPositions, text \in FewTexts : Insert(e, text)
    \/ \E line \in 1..MaxLine : HighlightLine(line)
    \/ \E lexer \in Lexers : calls < MaxCalls /\ SetLexer(lexer)
    \/ \E scheme \in PlainSchemes : calls < MaxCalls /\ SetColorScheme(scheme)
    \/ Mainloop

SpecConfigure == Init /\ [][NextConfigure]_vars

\* the widget under inserts and viewport events
NextView ==
    \/ \E e \in FewPositions, text \in FewTexts : Insert(e, text)
    \/ \E v \in Views : VerticalScroll(v[1], v[2])
    \/ \E v \in Views : HorizontalScroll(v[1], v[2])
    \/ ScrollLineUpdate
    \/ Mainloop

SpecView == Init /\ [][NextView]_vars

\* the widget under inserts and deletes with a handler of <<ContentChanged>>
NextHandler ==
    \/ \E op \in HandlerOps : Bind(op)
    \/ \E e \in FewPositions, text \in FewTexts : Insert(e, text)
    \/ \E e \in {LC(1, 0), SelFirst} : Delete1(e)
    \/ \E r \in {<<LC(1, 0), End>>} : Replace(r[1], r[2], <<"1", NL>>)
    \/ Mainloop

SpecHandler == Init /\ [][NextHandler]_vars

\* the widget constructed with undo=True, under inserts, deletes, undo and redo
NextUndo ==
    \/ \E e \in FewPositions, text \in FewTexts : Insert(e, text)
    \/ \E e \in {LC(1, 0), LC(1, 1)} : Delete1(e)
    \/ \E r \in {<<LC(1, 0), End>>} : Replace(r[1], r[2], <<"1", NL>>)
    \/ EditUndo
    \/ Redo
    \/ Mainloop

SpecUndo == Constructed(TRUE) /\ [][NextUndo]_vars

(* ------------------------ reading a call's record ---------------------- *)

\* the highlight tags on each character
TokenTagsOf(t) == [i \in 1..Len(t) |-> {tag \in t[i] : IsTokenTag(tag)}]

Events(l, ev) == {i \in 1..Len(l) : l[i].ev = ev}
NumPasses(l) == Cardinality(Events(l, "pass"))
NumNotifies(l) == Cardinality(Events(l, "notify"))
ThePass(l) == l[CHOOSE i \in Events(l, "pass") : TRUE]
TclErrors(l) == {l[i].msg : i \in Events(l, "tclerror")}

Mutations == {"insert", "delete", "replace"}
Forwarded == {"get", "index", "tag", "mark", "edit"}
DirectPasses == {"highlight_line", "highlight_area", "highlight_all"}

\* the call just handled was a mutation the Buffer accepted
Mutated(c, l) == c.cmd \in Mutations /\ l # <<>> /\ TclErrors(l) = {}

\* the line a position expression resolves to in (b, t, m)
LineAt(b, t, m, e) == IndexStr(b, Index(b, t, m, e).pos)[1]

\* lines below 1 and past the last name the first line and "end"
Clamp(b, line) == Max(1, Min(line, NumLines(b) + 1))

(* -------------------------------- C1 ----------------------------------- *)

\* C1: after a successful insert, delete or replace through the interceptor,
\* once its highlight pass has run, the highlight tags over the whole buffer
\* equal those a whole-buffer pass over the current content produces.
C1_ConsistentAfterMutation ==
    Mutated(call, log) =>
        TokenTagsOf(tags) = TokenTagsOf(highlight_all(buf, tags, _lexer))

(* -------------------------------- C2 ----------------------------------- *)

BenignErrors == {ErrNoSel, ErrNothingToUndo, ErrNothingToRedo}

\* C2: when the Buffer raises a "no active selection" or a "nothing to
\* undo/redo" error, the interceptor returns an empty result, raises nothing,
\* leaves buffer and tags as they were, runs no pass and notifies nobody.
C2_BenignSuppressed ==
    [][(TclErrors(log') \cap BenignErrors # {}) =>
            /\ ret' = Returned(<<>>)
            /\ buf' = buf
            /\ tags' = tags
            /\ NumPasses(log') = 0
            /\ NumNotifies(log') = 0]_vars

\* a delete of the selection with nothing selected came back empty
C2_Witness ==
    /\ call.cmd = "delete"
    /\ call.a1 = SelFirst
    /\ ErrNoSel \in TclErrors(log)
    /\ ret = Returned(<<>>)

(* -------------------------------- C3 ----------------------------------- *)

\* C3: every other Buffer error reaches the caller unchanged, and then no
\* pass runs, nobody is notified and buffer and tags are as they were.
C3_OtherErrorsPropagate ==
    [][\A msg \in TclErrors(log') \ BenignErrors :
            /\ ret' = Raised(msg)
            /\ buf' = buf
            /\ tags' = tags
            /\ NumPasses(log') = 0
            /\ NumNotifies(log') = 0]_vars

\* a replace whose end is not a position raised the Buffer's own message
C3_Witness ==
    /\ call.cmd = "replace"
    /\ TclErrors(log) = {ErrBadIndex}
    /\ ret = Raised(ErrBadIndex)

(* -------------------------------- C4 ----------------------------------- *)

\* C4: a successful insert, delete or replace runs exactly one highlight
\* pass and raises exactly one notification; any other command is forwarded
\* with no pass and no notification, the commands a pass sends included, so
\* no pass starts inside a pass.
C4_OnePassOneNotification ==
    /\ Mutated(call, log) => NumPasses(log) = 1 /\ NumNotifies(log) = 1
    /\ call.cmd \in Forwarded => NumPasses(log) = 0 /\ NumNotifies(log) = 0
    /\ call.cmd \in DirectPasses => NumPasses(log) = 1 /\ NumNotifies(log) = 0
    /\ \A i \in Events(log, "pass") : log[i].depth = 0 /\ log[i].kind # "nested"
    /\ \A i \in Events(log, "call") :
           log[i].depth > 0 => log[i].cmd \in Forwarded

\* a replace went through: one pass, whose own commands started none
C4_Witness ==
    /\ call.cmd = "replace"
    /\ Mutated(call, log)
    /\ NumPasses(log) = 1
    /\ \E i \in Events(log, "call") : log[i].depth = 1 /\ log[i].cmd = "tag"

(* -------------------------------- C5 ----------------------------------- *)

\* the line the Buffer puts text inserted at position expression e on
\* ("end" is the end of the last line, before the final newline)
InsertLine(b, t, m, e) == LineOf(b, Min(Index(b, t, m, e).pos, Len(b) - 1))

\* C5: a successful insert at a position on line n, of text with k newlines,
\* runs one pass: a single-line pass over line n when the text has one
\* newline (over line n alone, as a line or as a range, when it has none),
\* and one range pass starting at line n and ending at the last inserted
\* line when it has several.
C5_InsertRegion ==
    [][(call'.cmd = "insert" /\ Mutated(call', log')) =>
            LET n == InsertLine(buf, tags, mark, call'.a1)
                k == CountNl(call'.text)
                p == ThePass(log')
            IN  /\ NumPasses(log') = 1
                /\ k = 0 => \/ p.kind = "line" /\ p.s = n
                            \/ p.kind = "area" /\ p.s = n /\ p.e = n
                /\ k = 1 => p.kind = "line" /\ p.s = n
                /\ k >= 2 => /\ p.kind = "area"
                             /\ Clamp(buf', p.s) = n
                             /\ p.e \in {n + k - 1, n + k}]_vars

(* -------------------------------- C6 ----------------------------------- *)

\* C6: a successful delete or replace whose start and end resolve, before
\* forwarding, to lines s and e runs a single-line pass over s when s = e
\* and a range pass from s to e otherwise.
C6_ChangeRegion ==
    [][(call'.cmd \in {"delete", "replace"} /\ Mutated(call', log')) =>
            LET s == LineAt(buf, tags, mark, call'.a1)
                e == IF call'.n = 1 THEN s ELSE LineAt(buf, tags, mark, call'.a2)
                p == ThePass(log')
            IN  /\ NumPasses(log') = 1
                /\ s = e => p.kind = "line" /\ p.s = s
                /\ s # e => p.kind = "area" /\ p.s = s /\ p.e = e]_vars

(* -------------------------------- C7 ----------------------------------- *)

\* the tags tokenizing one line yields, character by character
LineTags(text) ==
    [i \in 1..Len(text) |->
        IF KindOf(_lexer, text[i]) \in Untagged THEN {} ELSE {KindOf(_lexer, text[i])}]

C8_Disjoint ==
    NumPasses(log) > 0 =>
        \A i \in 1..Len(tags) : Cardinality(TokenTagsOf(tags)[i]) <= 1

(* -------------------------------- C9 ----------------------------------- *)

\* the pass a call's record names, run on (b, t)
RunPass(p, b, t, lexer) ==
    CASE p.kind = "line" -> highlight_line(b, t, lexer, PosOfLC(b, p.s, 0))
      [] p.kind = "area" -> highlight_area(b, t, lexer, p.s, p.e)
      [] OTHER -> highlight_all(b, t, lexer)

\* C9: a highlight pass run twice over the same region of an unchanged
\* buffer leaves the tags the first run left: whenever a pass has run, over
\* whatever region, running it once more changes no tag.
C9_Idempotent ==
    NumPasses(log) = 1 => RunPass(ThePass(log), buf, tags, _lexer) = tags

\* a range pass over several lines has run and left two kinds of tag
C9_Witness ==
    /\ call.cmd = "highlight_area"
    /\ calls >= 2
    /\ ThePass(log).s < ThePass(log).e
    /\ \E i, j \in 1..Len(tags) :
           /\ TokenTagsOf(tags)[i] # {}
           /\ TokenTagsOf(tags)[j] # {}
           /\ TokenTagsOf(tags)[i] # TokenTagsOf(tags)[j]

(* -------------------------------- C10 ---------------------------------- *)

\* the fixed table _parse_scheme reads each category's table through
CategoryTable(cat) ==
    CASE cat = "keyword" -> _keywords
      [] cat = "name" -> _names
      [] cat = "operator" -> _operators
      [] cat = "string" -> _strings
      [] cat = "number" -> _numbers
      [] cat = "comment" -> _comments
      [] cat = "generic" -> _generic
      [] cat = "extras" -> _extras

\* the categories whose general value _parse_scheme hands to _parse_table
FallbackCategories == {"keyword", "name", "string", "comment"}

\* the style a resolved table gives a tag: None when it is unset
Style(d, token) == DictGet(d, token)

\* the value the scheme's own table of the category gives the subkind
Explicit(scheme, cat, token) ==
    IF cat \in DOMAIN scheme
    THEN DictGet(scheme[cat], CategoryTable(cat)[token])
    ELSE None

\* a scheme has been set
Configured == "general" \in DOMAIN color_scheme

\* C10 as stated: in every category, every subkind resolves to the explicit
\* value of the category's table if present, else to general.<category> if
\* present, else it is unset (Error, which is also one of the tags bound to
\* a general value directly, is left aside).
C10_FallbackEveryCategory ==
    Configured =>
        \A cat \in Categories : \A token \in DOMAIN CategoryTable(cat) \ {"Error"} :
            Style(tag_styles, token) =
                IF Explicit(color_scheme, cat, token) # None
                THEN Explicit(color_scheme, cat, token)
                ELSE DictGet(color_scheme["general"], cat)

\* C10: every subkind resolves to the explicit value of its category's table
\* if present; else, in the categories keyword, name, string and comment, to
\* general.<category> if present; else it is unset, except that Error resolves
\* to general.error when the scheme has no extras table.  In operator, number,
\* generic and extras, general.<category> plays no part.
C10_FallbackFourCategories ==
    Configured =>
        \A cat \in Categories : \A token \in DOMAIN CategoryTable(cat) :
            Style(tag_styles, token) =
                IF Explicit(color_scheme, cat, token) # None
                THEN Explicit(color_scheme, cat, token)
                ELSE IF cat \in FallbackCategories
                THEN DictGet(color_scheme["general"], cat)
                ELSE IF token = "Error" /\ "extras" \notin DOMAIN color_scheme
                THEN DictGet(color_scheme["general"], "error")
                ELSE None

\* a scheme with general.keyword and general.operator and neither a keyword
\* nor an operator table: the keyword subkinds have the general value, the
\* operators have none
C10_Witness ==
    /\ Configured
    /\ DictGet(color_scheme["general"], "keyword") = GeneralColor
    /\ DictGet(color_scheme["general"], "operator") = GeneralColor
    /\ "keyword" \notin DOMAIN color_scheme
    /\ "operator" \notin DOMAIN color_scheme
    /\ \A token \in DOMAIN _keywords : Style(tag_styles, token) = GeneralColor
    /\ Style(tag_styles, "Operator") = None

(* -------------------------------- C11 ---------------------------------- *)

\* the call raised and left the scheme, the editor options, the tag styles
\* and the tags as they were
Refused ==
    /\ ret'.kind = "raise"
    /\ color_scheme' = color_scheme
    /\ options' = options
    /\ tag_styles' = tag_styles
    /\ foreground' = foreground
    /\ tags' = tags

\* C11: setting a colour scheme that has no general table, or a string that
\* names no bundled scheme, raises, puts no other scheme in its place, and
\* leaves the editor options, the tag styles and the tags as they were.
C11_RejectedSchemeChangesNothing ==
    [][/\ \A scheme \in FewSchemes :
              ("general" \notin DOMAIN scheme /\ SetColorScheme(scheme)) => Refused
       /\ \A name \in SchemeNames \ _builtin_color_schemes :
              SetColorSchemeName(name) => Refused]_vars

\* a scheme was in place, with a style and an editor option, when a call
\* to set another raised
C11_Witness ==
    /\ call.cmd = "configure"
    /\ ret = Raised(AssertionError)
    /\ Configured
    /\ \E name \in DOMAIN foreground : foreground[name] # None
    /\ \E o \in DOMAIN options : options[o] # None

(* -------------------------------- C12 ---------------------------------- *)

ViewportCalls == {"vertical_scroll", "horizontal_scroll", "scroll_line_update"}

\* the viewport event just handled had the bounds and the text of the one
\* before it
SameView(c, l) == c.cmd \in ViewportCalls /\ l # <<>> /\ l[1].kind = "same"

\* C12: a viewport event (scroll, resize) whose bounds and visible text are
\* those of the viewport event before it adds no tag and removes none.
C12_SameViewNoTagChange ==
    [][SameView(call', log') => tags' = tags]_vars

\* the Buffer reported, for highlighted text, the view it had reported before
C12_Witness ==
    /\ SameView(call, log)
    /\ call.cmd = "vertical_scroll"
    /\ Len(buf) > 1
    /\ HighlightNames(tags) # {}

(* -------------------------------- C13 ---------------------------------- *)

\* the offsets (from, to) a pass works on
PassRegion(p, b) ==
    CASE p.kind = "line" -> <<PosOfLC(b, p.s, 0), PosOfLineEnd(b, p.s)>>
      [] p.kind = "area" -> <<PosOfLC(b, p.s, 0), PosOfLineEnd(b, p.e)>>
      [] OTHER -> <<0, Len(b)>>

OtherTagsOf(t) == [i \in 1..Len(t) |-> {tag \in t[i] : ~IsTokenTag(tag)}]

\* a pass over p's region of b took the tags from before to after, keeping
\* the pass's frame: highlight tags gone only inside the region, and every
\* other tag where it was
Framed(p, b, before, after) ==
    LET region == PassRegion(p, b)
    IN  /\ OtherTagsOf(after) = OtherTagsOf(before)
        /\ \A i \in 1..Len(b) :
               (i <= region[1] \/ i > region[2]) =>
                   TokenTagsOf(before)[i] \subseteq TokenTagsOf(after)[i]

\* C14: a highlight pass over a region removes highlight tags only from
\* positions inside that region, adds only highlight tags, and leaves every
\* other tag (the selection tag "sel") as it was at every position, both
\* for the passes called directly and for the pass that follows a mutation.
C14_PassFrame ==
    [][/\ (call'.cmd \in DirectPasses /\ NumPasses(log') = 1) =>
              Framed(ThePass(log'), buf, tags, tags')
       /\ (Mutated(call', log') /\ NumPasses(log') = 1) =>
              Framed(ThePass(log'), buf', Forward(buf, tags, mark, call').tags, tags')]_vars

\* a line pass went over a line that holds a tagged token while another
\* line kept its highlight tag and a selection was in place
C14_Witness ==
    /\ call.cmd = "highlight_line"
    /\ NumPasses(log) = 1
    /\ Selected(tags) # {}
    /\ \E i \in 1..Len(buf) :
           /\ LineOf(buf, i - 1) # ThePass(log).s
           /\ TokenTagsOf(tags)[i] # {}
    /\ \E i \in 1..Len(buf) :
           /\ LineOf(buf, i - 1) = ThePass(log).s
           /\ KindOf(_lexer, buf[i]) \notin Untagged

(* -------------------------------- C15 ---------------------------------- *)

\* the first and the last event ev of the record l
FirstEv(l, ev) == CHOOSE i \in Events(l, ev) : \A j \in Events(l, ev) : i <= j
LastEv(l, ev) == CHOOSE i \in Events(l, ev) : \A j \in Events(l, ev) : j <= i

\* the record l of a successful mutation has its steps in the order forward,
\* highlight pass (with every command the pass sends), notification, return
Ordered(l) ==
    /\ Events(l, "forward") # {} /\ Events(l, "pass") # {}
    /\ Events(l, "notify") # {} /\ Events(l, "return") # {}
    /\ FirstEv(l, "forward") < FirstEv(l, "pass")
    /\ FirstEv(l, "pass") < FirstEv(l, "notify")
    /\ \A i \in 1..Len(l) :
           (l[i].ev = "call" /\ l[i].depth = 1 /\ FirstEv(l, "pass") < i
               /\ (Events(l, "handler") = {} \/ i < FirstEv(l, "handler")))
               => i < FirstEv(l, "notify")
    /\ LastEv(l, "return") = Len(l)
    /\ FirstEv(l, "notify") < FirstEv(l, "return")

\* the part of the record l a mutation sent by a handler left: what follows
\* the handler's start, without the outer call's return
HandlerPart(l) == SubSeq(l, FirstEv(l, "handler") + 1, Len(l) - 1)

\* C15: for each successful mutation the steps come in the order forward to
\* the Buffer, highlight pass, content-changed notification, return; and the
\* pass of mutation N is complete, its tags applied, before the interception
\* of mutation N+1 begins, also when a handler of mutation N's notification
\* issues mutation N+1: that handler finds the Buffer with the tags of the
\* finished pass, and its own mutation's steps all come after the
\* notification, in the same order.
C15_PassBeforeNextMutation ==
    [][Mutated(call', log') =>
           /\ Ordered(log')
           /\ Events(log', "handler") # {} =>
                  /\ FirstEv(log', "notify") < FirstEv(log', "handler")
                  /\ LET F == Forward(buf, tags, mark, call')
                     IN  /\ saw'[1].buf = F.buf
                         /\ saw'[1].tags =
                                RunPass(log'[FirstEv(log', "pass")], F.buf, F.tags, _lexer)
                  /\ HandlerPart(log')[1].ev = "call"
                  /\ (Succeeded(HandlerPart(log')) => Ordered(HandlerPart(log')))]_vars

\* a mutation whose pass tagged a token was followed, from a handler of its
\* notification, by a second successful mutation with a pass of its own
C15_Witness ==
    /\ Mutated(call, log)
    /\ Events(log, "handler") # {}
    /\ NumPasses(log) = 2
    /\ NumNotifies(log) = 2
    /\ saw # <<>>
    /\ HighlightNames(saw[1].tags) # {}
    /\ saw[1].buf # buf

(* -------------------------------- C16 ---------------------------------- *)

\* the tags _parse_scheme binds to a general value directly, with the key
\* of that value
CrossCutting ==
    ("Error" :> "error") @@ ("Escape" :> "escape") @@
    ("Punctuation" :> "punctuation") @@ ("Comment" :> "comment") @@
    ("Keyword" :> "keyword") @@ ("Keyword.Other" :> "keyword") @@
    ("Literal.String" :> "string") @@ ("Literal.String.Other" :> "string") @@
    ("Name.Other" :> "name")

\* C16: the cross-cutting tags Error, Escape, Punctuation, Comment, Keyword,
\* Keyword.Other, Literal.String, Literal.String.Other and Name.Other always
\* resolve to their general value, whatever per-category tables (keyword,
\* name, string, comment, extras, ...) the scheme also holds.
C16_CrossCuttingGeneral ==
    Configured =>
        \A token \in DOMAIN CrossCutting :
            Style(tag_styles, token) =
                DictGet(color_scheme["general"], CrossCutting[token])

(* -------------------------------- C17 ---------------------------------- *)

\* the style the Buffer draws the highlight tag of a token kind with: None
\* when the tag has no foreground
Drawn(fg, token) == DictGet(fg, <<"Token", token>>)

\* every tag a scheme can style
StyledTokens ==
    DOMAIN CrossCutting \cup UNION {DOMAIN CategoryTable(cat) : cat \in Categories}

\* C17: a colour scheme is replaced wholesale: once a scheme S2 has been set
\* in the place of a scheme S1, the style of every highlight tag is the one
\* S2 resolves to, and a tag that S2 leaves unset has no style, even when S1
\* gave it one.
C17_SchemeReplacedWholesale ==
    Configured =>
        \A token \in StyledTokens :
            Drawn(foreground, token) = Style(tag_styles, token)

(* -------------------------------- C18 ---------------------------------- *)

C19_AcceptedInsertSucceeds ==
    [][(call'.cmd = "insert" /\ Forward(buf, tags, mark, call').err = NoError) =>
           /\ ret'.kind = "return"
           /\ Succeeded(log')
           /\ buf' = Forward(buf, tags, mark, call').buf]_vars

(* -------------------------------- C20 ---------------------------------- *)

\* configure(lexer=...) or configure(color_scheme=...) has come back
Reconfigured(c, l, r) == c.cmd = "configure" /\ r.kind = "return" /\ l # <<>>

\* C20: changing the tokenizer, or setting a colour scheme with success,
\* runs one whole-buffer highlight pass: afterwards the highlight tags are
\* those a whole-buffer pass with the lexer now in place puts on a buffer
\* that carries none (no tag of an earlier pass is left anywhere else), the
\* other tags are as they were, and the buffer content is unchanged.
C20_ReconfigureRehighlightsAll ==
    [][Reconfigured(call', log', ret') =>
           /\ NumPasses(log') = 1
           /\ ThePass(log').kind = "all"
           /\ buf' = buf
           /\ tags' = highlight_all(buf, OtherTagsOf(tags), _lexer')]_vars

\* the lexer was changed to one that tags nothing, on a buffer of two lines
\* with words: no highlight tag is left
C20_Witness ==
    /\ Reconfigured(call, log, ret)
    /\ call.sub = "lexer"
    /\ _lexer = TextLexer
    /\ NumLines(buf) > 1
    /\ \E i \in 1..Len(buf) : buf[i] \in Letters /\ LineOf(buf, i - 1) > 1
    /\ HighlightNames(tags) = {}

====
